---- MODULE Spec2Model ----
(***************************************************************************)
(* Model of src/main.cpp: the text_control buffer callbacks handed to      *)
(* stb_textedit (insert_chars, delete_chars, get_width_func, layout_func), *)
(* the text measurer getTextSize, the quad builder createTextTexture and   *)
(* the event loop of TextEditorApp::run.                                   *)
(*                                                                         *)
(* Characters are modelled by name: "a" and "b" are ordinary letters,      *)
(* "sp" is ' ', "tab" '\t', "nl" '\n', "cr" '\r', "qm" '?', "nul" '\0'.    *)
(* Doubles are modelled as exact rationals: every horizontal or vertical   *)
(* pixel quantity is kept as an integer numerator over the denominator     *)
(* Den(font) = ascenderY - descenderY, so that fsScale * v is 24 * v over  *)
(* that denominator.  Floating-point rounding is not modelled.             *)
(***************************************************************************)
EXTENDS Integers, Sequences, FiniteSets, TLC

VARIABLES
    str,        \* text_control::string of the edited control
    state,      \* text_control::state (STB_TexteditState): cursor, selection, insert mode
    font,       \* g_AppContext.fontGeometry: metrics, glyphs, advances, kerning
    queue,      \* the SDL event queue read by SDL_PollEvent
    clipboard,  \* the system clipboard text
    call,       \* record of the last callback invocation and its outcome
    prevCall,   \* record of the invocation before it
    ev,         \* record of the last event handled by run()
    loop        \* run(): "running", "quitting" once quit is set, "exited"

vars == <<str, state, font, queue, clipboard, call, prevCall, ev, loop>>

\* ---------------------------------------------------------------- bounds

\* longest buffer content explored
MaxLen == 3
\* longest byte sequence handed to one insert
MaxIns == 2

\* ---------------------------------------------------------------- helpers

Min(a, b) == IF a < b THEN a ELSE b
Max(a, b) == IF a > b THEN a ELSE b

\* all sequences over S of length at most n
SeqsUpTo(S, n) == UNION {[1..k -> S] : k \in 0..n}

\* [from, from+n) of s, 0-based, as std::string_view(data + from, n) on valid bounds
Slice(s, from, n) == SubSeq(s, from + 1, from + n)

\* ------------------------------------------------- text_control callbacks

NoCall ==
    [op |-> "none", pos |-> 0, num |-> 0, text |-> <<>>, before |-> <<>>,
     outcome |-> "none", ret |-> 0]

\* insert_chars with the tail shifted one character too far
insert_chars_bug(s, pos, newtext) ==
    IF pos < 0 \/ pos > Len(s)
    THEN [string |-> s, outcome |-> "out_of_range", ret |-> 0]
    ELSE [string |-> Slice(s, 0, pos) \o newtext \o Slice(s, pos + 1, Len(s) - pos - 1),
          outcome |-> "returned", ret |-> 1]

\* the same, but a position past the end is clamped to the end
insert_chars_clamp(s, pos, newtext) ==
    LET p == IF pos < 0 \/ pos > Len(s) THEN Len(s) ELSE pos
    IN  [string |-> Slice(s, 0, p) \o newtext \o Slice(s, p, Len(s) - p),
         outcome |-> "returned", ret |-> 1]

\* std::string::insert(pos, s, n) as called by insert_chars: pos is converted
\* to size_type, so a negative pos is a huge one; pos > size() throws
\* std::out_of_range before anything is written.
insert_chars(s, pos, newtext) ==
    IF pos < 0 \/ pos > Len(s)
    THEN [string |-> s, outcome |-> "out_of_range", ret |-> 0]
    ELSE [string |-> Slice(s, 0, pos) \o newtext \o Slice(s, pos, Len(s) - pos),
          outcome |-> "returned", ret |-> 1]

\* std::string::erase(pos, n) as called by delete_chars: pos > size() throws
\* std::out_of_range; otherwise min(n, size() - pos) characters are removed
\* (a negative num converts to a huge size_type and removes the whole tail).
delete_chars(s, pos, num) ==
    IF pos < 0 \/ pos > Len(s)
    THEN [string |-> s, outcome |-> "out_of_range", ret |-> 0]
    ELSE LET n == IF num < 0 THEN Len(s) - pos ELSE Min(num, Len(s) - pos)
         IN  [string |-> Slice(s, 0, pos) \o Slice(s, pos + n, Len(s) - pos - n),
              outcome |-> "returned", ret |-> 1]

\* ------------------------------------------------------------ the font

\* the characters that may have a glyph: msdf_atlas::Charset::ASCII holds the
\* printable characters only, so '\t', '\n', '\r' and '\0' never have one
GlyphChars == {"a", "b", "sp", "qm"}
NoGlyph == "none"

\* GlyphGeometry::getAdvance, in font units
Advance == [c \in GlyphChars |->
    CASE c = "a" -> 6 [] c = "b" -> 7 [] c = "sp" -> 3 [] c = "qm" -> 5]

\* GlyphGeometry::getQuadPlaneBounds (left, bottom, right, top), in font units
Plane == [c \in GlyphChars |->
    CASE c = "a"  -> [l |-> 0, b |-> 0, r |-> 5, t |-> 5]
      [] c = "b"  -> [l |-> 0, b |-> 0, r |-> 6, t |-> 8]
      [] c = "sp" -> [l |-> 0, b |-> 0, r |-> 0, t |-> 0]
      [] c = "qm" -> [l |-> 1, b |-> 0, r |-> 4, t |-> 8]]

\* the kerning table of a font that has one
KernPairs == {<<"a", "b">>, <<"sp", "a">>, <<"b", "a">>}
KernOf(pair) == IF pair = <<"b", "a">> THEN 1 ELSE -1

\* the fonts loadFont may have loaded: FontMetrics (ascenderY, descenderY,
\* lineHeight, in font units), the glyphs the font file has among the charset,
\* and whether it has kerning.  Every font has the space glyph, which
\* createTextTexture dereferences unchecked.
Fonts ==
    { [ascenderY |-> 9,  descenderY |-> -3, lineHeight |-> 12,
       glyphs |-> {"a", "b", "sp", "qm"}, kerning |-> KernPairs],
      [ascenderY |-> 9,  descenderY |-> -3, lineHeight |-> 14,
       glyphs |-> {"a", "b", "sp", "qm"}, kerning |-> KernPairs],
      [ascenderY |-> 12, descenderY |-> -4, lineHeight |-> 18,
       glyphs |-> {"a", "sp", "qm"}, kerning |-> {}],
      [ascenderY |-> 12, descenderY |-> -4, lineHeight |-> 18,
       glyphs |-> {"a", "sp"}, kerning |-> KernPairs] }

\* g_AppContext.ft after TextEditorApp::initialize succeeded: run() and with it
\* every callback is reached only then
ft == TRUE

\* FontGeometry::getGlyph
getGlyph(f, c) == IF c \in f.glyphs THEN c ELSE NoGlyph

\* a glyph lookup with no fallback
ResolveGlyph_nofallback(f, c) == getGlyph(f, c)

\* the glyph lookup of both walks, with the '?' fallback
ResolveGlyph(f, c) ==
    IF getGlyph(f, c) # NoGlyph THEN getGlyph(f, c) ELSE getGlyph(f, "qm")

\* FontGeometry::getAdvance(advance, c1, c2): fails, leaving advance alone,
\* unless both characters have a glyph of their own; otherwise the advance of
\* the first plus the kerning of the pair
getAdvance(f, c1, c2) ==
    IF getGlyph(f, c1) = NoGlyph \/ getGlyph(f, c2) = NoGlyph
    THEN [ok |-> FALSE, advance |-> 0]
    ELSE [ok |-> TRUE,
          advance |-> Advance[c1] + (IF <<c1, c2>> \in f.kerning THEN KernOf(<<c1, c2>>) ELSE 0)]

\* the target pixel size of both walks
PixelSize == 24
\* the denominator of fsScale = 24.0 / (ascenderY - descenderY)
Den(f) == f.ascenderY - f.descenderY
\* fsScale * v as a numerator over Den(f)
Scaled(f, v) == PixelSize * v
\* ceil(n / d) for d > 0
CeilDiv(n, d) == -((-n) \div d)

\* ------------------------------------------------------------ the measurer

getFontHeight == 24

\* the loop of getTextSize from character i (1-based) on; acc holds maxWidth,
\* currentLineWidth and totalHeight as numerators over Den(f), and adv[k], the
\* amount added to currentLineWidth for character k
RECURSIVE MeasureWalk(_, _, _, _)
MeasureWalk(text, f, i, acc) ==
    IF i > Len(text) THEN acc
    ELSE LET character == text[i]
             glyph == ResolveGlyph(f, character)
         IN  IF character = "nl"
             THEN MeasureWalk(text, f, i + 1,
                    [maxWidth |-> Max(acc.maxWidth, acc.currentLineWidth),
                     currentLineWidth |-> 0,
                     totalHeight |-> acc.totalHeight + Scaled(f, f.lineHeight),
                     adv |-> Append(acc.adv, 0)])
             ELSE IF character = "cr" \/ glyph = NoGlyph
             THEN MeasureWalk(text, f, i + 1, [acc EXCEPT !.adv = Append(@, 0)])
             ELSE LET pair == IF i < Len(text)
                              THEN getAdvance(f, character, text[i + 1])
                              ELSE [ok |-> FALSE, advance |-> 0]
                      advance == IF pair.ok THEN pair.advance ELSE Advance[glyph]
                  IN  MeasureWalk(text, f, i + 1,
                        [acc EXCEPT !.currentLineWidth = @ + Scaled(f, advance),
                                    !.adv = Append(@, Scaled(f, advance))])

\* the walk of getTextSize over a non-empty text, before the final max and ceil
MeasureRaw(text, f) ==
    MeasureWalk(text, f, 1,
        [maxWidth |-> 0, currentLineWidth |-> 0,
         totalHeight |-> getFontHeight * Den(f), adv |-> <<>>])

\* getTextSize(str, text, &w, &h)
getTextSize(text, f) ==
    IF text = <<>>
    THEN [w |-> 0, h |-> getFontHeight]
    ELSE LET m == MeasureRaw(text, f)
         IN  [w |-> CeilDiv(Max(m.maxWidth, m.currentLineWidth), Den(f)),
              h |-> CeilDiv(m.totalHeight, Den(f))]

\* -------------------------------------------------------- the quad builder

\* spaceGlyphAdvance of createTextTexture
spaceGlyphAdvance(f) == Advance[getGlyph(f, "sp")]

\* a tab that advances the pen by one space only
TabAdvance_one(f) == Scaled(f, spaceGlyphAdvance(f))

\* the pen advance of '\t': 4.0f * (fsScale * spaceGlyphAdvance)
TabAdvance(f) == 4 * Scaled(f, spaceGlyphAdvance(f))

\* the quad of one glyph at pen position (x, y): the plane bounds scaled by
\* fsScale and offset by the pen, the vertical ones flipped and moved down by
\* 24 (positions only; the atlas coordinates and the colour play no part in
\* the pen arithmetic and are left out)
GlyphQuad(f, i, character, glyph, x, y) ==
    [index |-> i - 1, character |-> character, glyph |-> glyph, x |-> x, y |-> y,
     pl |-> Scaled(f, Plane[glyph].l) + x,
     pr |-> Scaled(f, Plane[glyph].r) + x,
     pb |-> y - Scaled(f, Plane[glyph].b) + 24 * Den(f),
     pt |-> y - Scaled(f, Plane[glyph].t) + 24 * Den(f)]

\* the loop of createTextTexture from character i (1-based) on; acc holds the
\* pen (x, y) as numerators over Den(f), the quads emitted so far, adv[k],
\* the amount added to x for character k, and pen[k], the pen after it.  uninit is the value read from the
\* uninitialized dAdvance when getAdvance fails after a space.
\* the pen (x, y) as it stands at the end of one iteration of the loop, kept
\* per character in acc.pen
Stamp(acc) == [acc EXCEPT !.pen = Append(@, [x |-> acc.x, y |-> acc.y])]

RECURSIVE BuildWalk(_, _, _, _, _)
BuildWalk(strView, f, i, uninit, acc) ==
    IF i > Len(strView) THEN acc
    ELSE LET character == strView[i]
             glyph == ResolveGlyph(f, character)
         IN  IF character = "cr"
             THEN BuildWalk(strView, f, i + 1, uninit, Stamp([acc EXCEPT !.adv = Append(@, 0)]))
             ELSE IF character = "nl"
             THEN BuildWalk(strView, f, i + 1, uninit,
                    Stamp([acc EXCEPT !.x = 0,
                                      !.y = @ - Scaled(f, f.lineHeight),
                                      !.adv = Append(@, 0)]))
             ELSE IF character = "sp"
             THEN LET pair == IF i < Len(strView)
                              THEN getAdvance(f, character, strView[i + 1])
                              ELSE [ok |-> TRUE, advance |-> spaceGlyphAdvance(f)]
                      advance == IF pair.ok THEN pair.advance ELSE uninit
                  IN  BuildWalk(strView, f, i + 1, uninit,
                        Stamp([acc EXCEPT !.x = @ + Scaled(f, advance),
                                          !.adv = Append(@, Scaled(f, advance))]))
             ELSE IF character = "tab"
             THEN BuildWalk(strView, f, i + 1, uninit,
                    Stamp([acc EXCEPT !.x = @ + TabAdvance(f),
                                      !.adv = Append(@, TabAdvance(f))]))
             ELSE IF glyph = NoGlyph
             THEN BuildWalk(strView, f, i + 1, uninit, Stamp([acc EXCEPT !.adv = Append(@, 0)]))
             ELSE LET quad == GlyphQuad(f, i, character, glyph, acc.x, acc.y)
                      pair == IF i < Len(strView)
                              THEN getAdvance(f, character, strView[i + 1])
                              ELSE [ok |-> FALSE, advance |-> 0]
                      advance == IF i < Len(strView)
                                 THEN (IF pair.ok THEN pair.advance ELSE Advance[glyph])
                                 ELSE 0
                  IN  BuildWalk(strView, f, i + 1, uninit,
                        Stamp([acc EXCEPT !.quads = Append(@, quad),
                                          !.x = @ + Scaled(f, advance),
                                          !.adv = Append(@, Scaled(f, advance))]))

\* createTextTexture(offsetX, offsetY, str, strView, ...): the quads submitted
\* and the pen after the walk
createTextTexture(offsetX, offsetY, strView, f, uninit) ==
    BuildWalk(strView, f, 1, uninit,
        [x |-> offsetX * Den(f), y |-> offsetY * Den(f), quads |-> <<>>, adv |-> <<>>,
         pen |-> <<>>])

\* ------------------------------------------------- row layout, glyph width

\* a row that stores the length of the whole buffer as its character count
layout_func_whole(row, s, f, start_i) ==
    IF ~ft THEN row
    ELSE [x0 |-> 0, x1 |-> getTextSize(Slice(s, start_i, Len(s) - start_i), f).w,
          baseline_y_delta |-> getFontHeight, ymin |-> 0, ymax |-> getFontHeight,
          num_chars |-> Len(s)]

\* layout_func(row, str, start_i) for 0 <= start_i <= length
layout_func(row, s, f, start_i) ==
    IF ~ft THEN row
    ELSE LET remaining_chars == Len(s) - start_i
         IN  [x0 |-> 0, x1 |-> getTextSize(Slice(s, start_i, remaining_chars), f).w,
              baseline_y_delta |-> getFontHeight, ymin |-> 0, ymax |-> getFontHeight,
              num_chars |-> remaining_chars]

\* str->string[i] for 0 <= i <= length: the terminator at i = length
CharAt(s, i) == IF i = Len(s) THEN "nul" ELSE s[i + 1]

\* get_width_func(str, n, i), given the character read at index i
get_width_func(character, f) ==
    IF ~ft THEN 0 ELSE getTextSize(<<character>>, f).w

\* ------------------------------------------------ the buffer specification

BufChars == {"a", "b"}

InitIdle ==
    /\ state = [cursor |-> 0, select_start |-> 0, select_end |-> 0, insert_mode |-> FALSE]
    /\ font = 0
    /\ queue = <<>>
    /\ clipboard = <<>>
    /\ ev = 0
    /\ loop = "running"

InitBuffer ==
    /\ str \in SeqsUpTo(BufChars, MaxLen)
    /\ call = NoCall
    /\ prevCall = NoCall
    /\ InitIdle

\* Two calls are explored from every buffer content.
TwoCalls == prevCall.op = "none"

InsertChars(pos, newtext) ==
    /\ TwoCalls
    /\ Len(str) + Len(newtext) <= MaxLen
    /\ LET r == insert_chars(str, pos, newtext)
       IN  /\ str' = r.string
           /\ call' = [op |-> "insert_chars", pos |-> pos, num |-> Len(newtext),
                       text |-> newtext, before |-> str,
                       outcome |-> r.outcome, ret |-> r.ret]
    /\ prevCall' = call
    /\ UNCHANGED <<state, font, queue, clipboard, ev, loop>>

DeleteChars(pos, num) ==
    /\ TwoCalls
    /\ LET r == delete_chars(str, pos, num)
       IN  /\ str' = r.string
           /\ call' = [op |-> "delete_chars", pos |-> pos, num |-> num,
                       text |-> <<>>, before |-> str,
                       outcome |-> r.outcome, ret |-> r.ret]
    /\ prevCall' = call
    /\ UNCHANGED <<state, font, queue, clipboard, ev, loop>>

NextBuffer ==
    \/ \E pos \in -1..(MaxLen + 1), t \in SeqsUpTo(BufChars, MaxIns) : InsertChars(pos, t)
    \/ \E pos \in -1..(MaxLen + 1), num \in -1..(MaxLen + 1) : DeleteChars(pos, num)

SpecBuffer == InitBuffer /\ [][NextBuffer]_vars

\* ------------------------------------------------------- buffer properties

\* C1: an insert of count bytes at a valid pos, followed by a delete of count
\* bytes at the same pos, leaves the buffer with exactly the content and the
\* length it had before the insert.
C1_InsertThenDeleteRestores ==
    (/\ call.op = "delete_chars"
     /\ prevCall.op = "insert_chars"
     /\ prevCall.outcome = "returned"
     /\ call.pos = prevCall.pos
     /\ call.num = prevCall.num)
    => (/\ call.outcome = "returned"
        /\ str = prevCall.before
        /\ Len(str) = Len(prevCall.before))

\* an insert of at least one byte strictly inside a buffer, undone by a delete
C1_Witness ==
    /\ call.op = "delete_chars"
    /\ prevCall.op = "insert_chars"
    /\ prevCall.outcome = "returned"
    /\ call.pos = prevCall.pos
    /\ call.num = prevCall.num
    /\ call.num >= 1
    /\ 0 < call.pos
    /\ call.pos < Len(prevCall.before)

\* C2: a delete with pos + count > length fails with OutOfRange and leaves
\* the buffer unchanged, also when pos <= length.
C2_DeletePastEndFails ==
    (/\ call.op = "delete_chars"
     /\ call.pos >= 0
     /\ call.num >= 0
     /\ call.pos + call.num > Len(call.before))
    => (/\ call.outcome = "out_of_range"
        /\ str = call.before)

\* C3: an insert with pos > length fails with OutOfRange, does not report
\* success, and leaves the length and the content of the buffer as they were.
C3_InsertPastEndFails ==
    (/\ call.op = "insert_chars"
     /\ call.pos > Len(call.before))
    => (/\ call.outcome = "out_of_range"
        /\ call.ret # 1
        /\ str = call.before
        /\ Len(str) = Len(call.before))

\* an insert of at least one byte past the end of a non-empty buffer
C3_Witness ==
    /\ call.op = "insert_chars"
    /\ call.pos > Len(call.before)
    /\ call.num >= 1
    /\ Len(call.before) >= 1

\* -------------------------------------------- the text-geometry specification

TextChars == {"a", "b", "sp", "tab", "nl", "cr"}

\* values a read of uninitialized or out-of-buffer memory may yield
Garbage == {0, 5}

\* TEXT_BOX_X = TEXT_BOX_Y, the origin renderFrame builds at
TEXT_BOX_X == 50

NoRow == [x0 |-> 0, x1 |-> 0, baseline_y_delta |-> 0, ymin |-> 0, ymax |-> 0, num_chars |-> 0]
NoBuild == [x |-> 0, y |-> 0, quads |-> <<>>, adv |-> <<>>, pen |-> <<>>]

\* the shape of a recorded measurer, layout or builder call: the span or index
\* (start, n), the origin (ox), how the call ended, what it returned, and whether
\* it read outside the buffer
TextCall(op, start, n, ox, outcome, size, row, build, oob) ==
    [op |-> op, start |-> start, n |-> n, ox |-> ox, outcome |-> outcome,
     w |-> size.w, h |-> size.h, row |-> row, build |-> build, oob |-> oob]

InitText ==
    /\ str \in SeqsUpTo(TextChars, MaxLen)
    /\ font \in Fonts
    /\ call = TextCall("none", 0, 0, 0, "none", [w |-> 0, h |-> 0], NoRow, NoBuild, FALSE)
    /\ prevCall = NoCall
    /\ state = [cursor |-> 0, select_start |-> 0, select_end |-> 0, insert_mode |-> FALSE]
    /\ queue = <<>>
    /\ clipboard = <<>>
    /\ ev = 0
    /\ loop = "running"

\* The calls leave the buffer and the font alone, so one call is explored from
\* every buffer content and font.
Idle == call.op = "none"

\* (start, n) lies inside the buffer
ValidSpan(s, start, n) == 0 <= start /\ 0 <= n /\ start + n <= Len(s)

\* getTextSize(&text_edit_state, std::string_view(data + start, n), &w, &h) as
\* renderFrame calls it.  Neither the string_view nor getTextSize checks the
\* span: an empty view is measured as empty wherever it points, and outside
\* the buffer the walk reads whatever lies there, and the call crashes or
\* returns a size computed from it.
Measure(start, n) ==
    /\ Idle
    /\ \/ /\ ValidSpan(str, start, n)
          /\ call' = TextCall("getTextSize", start, n, 0, "returned",
                              getTextSize(Slice(str, start, n), font), NoRow, NoBuild, FALSE)
       \/ /\ ~ValidSpan(str, start, n)
          /\ n = 0
          /\ call' = TextCall("getTextSize", start, n, 0, "returned",
                              getTextSize(<<>>, font), NoRow, NoBuild, FALSE)
       \/ /\ ~ValidSpan(str, start, n)
          /\ n > 0
          /\ \/ call' = TextCall("getTextSize", start, n, 0, "crashed",
                                 [w |-> 0, h |-> 0], NoRow, NoBuild, TRUE)
             \/ \E g \in Garbage :
                  call' = TextCall("getTextSize", start, n, 0, "returned",
                                   [w |-> g, h |-> getFontHeight], NoRow, NoBuild, TRUE)
    /\ UNCHANGED <<str, state, font, queue, clipboard, prevCall, ev, loop>>

\* layout_func(&row, str, start_i): for start_i outside [0, length] the
\* string_view has a wrapped or oversized length and the measurer reads
\* outside the buffer.
LayoutRow(start_i) ==
    /\ Idle
    /\ \/ /\ ValidSpan(str, start_i, 0)
          /\ call' = TextCall("layout_func", start_i, 0, 0, "returned", [w |-> 0, h |-> 0],
                              layout_func(NoRow, str, font, start_i), NoBuild, FALSE)
       \/ /\ ~ValidSpan(str, start_i, 0)
          /\ \/ call' = TextCall("layout_func", start_i, 0, 0, "crashed", [w |-> 0, h |-> 0],
                                 NoRow, NoBuild, TRUE)
             \/ \E g \in Garbage :
                  call' = TextCall("layout_func", start_i, 0, 0, "returned", [w |-> 0, h |-> 0],
                                   [x0 |-> 0, x1 |-> g, baseline_y_delta |-> getFontHeight,
                                    ymin |-> 0, ymax |-> getFontHeight,
                                    num_chars |-> Len(str) - start_i],
                                   NoBuild, TRUE)
    /\ UNCHANGED <<str, state, font, queue, clipboard, prevCall, ev, loop>>

\* get_width_func(str, n, i): str->string[i] is unchecked, so an index outside
\* [0, length] reads some byte outside the buffer, or crashes.
GetWidth(i) ==
    /\ Idle
    /\ \/ /\ ValidSpan(str, i, 0)
          /\ call' = TextCall("get_width_func", i, 0, 0, "returned",
                              [w |-> get_width_func(CharAt(str, i), font), h |-> 0],
                              NoRow, NoBuild, FALSE)
       \/ /\ ~ValidSpan(str, i, 0)
          /\ \/ call' = TextCall("get_width_func", i, 0, 0, "crashed", [w |-> 0, h |-> 0],
                                 NoRow, NoBuild, TRUE)
             \/ \E c \in TextChars \cup {"nul"} :
                  call' = TextCall("get_width_func", i, 0, 0, "returned",
                                   [w |-> get_width_func(c, font), h |-> 0],
                                   NoRow, NoBuild, TRUE)
    /\ UNCHANGED <<str, state, font, queue, clipboard, prevCall, ev, loop>>

\* createTextTexture(origin, origin, &text_edit_state, text_edit_state.string, ...)
Build(origin, uninit) ==
    /\ Idle
    /\ call' = TextCall("createTextTexture", 0, Len(str), origin, "returned", [w |-> 0, h |-> 0],
                        NoRow, createTextTexture(origin, origin, str, font, uninit), FALSE)
    /\ UNCHANGED <<str, state, font, queue, clipboard, prevCall, ev, loop>>

\* the selection rectangle of renderFrame for a selection inside the buffer:
\* drawSolidQuad(TEXT_BOX_X + offset, TEXT_BOX_Y, width, height), offset and
\* height measured on [0, start_idx) and width on [start_idx, end_idx)
SelectionQuad(s, f, st) ==
    LET start_idx == Min(st.select_start, st.select_end)
        end_idx == Max(st.select_start, st.select_end)
        prefix == getTextSize(Slice(s, 0, start_idx), f)
        selected == getTextSize(Slice(s, start_idx, end_idx - start_idx), f)
    IN  [x |-> TEXT_BOX_X + prefix.w, y |-> TEXT_BOX_X, w |-> selected.w, h |-> prefix.h]

\* the caret rectangle of renderFrame for a cursor inside the buffer:
\* drawSolidQuad(TEXT_BOX_X + cursor_x, TEXT_BOX_Y, 2, cursor_h), both measured
\* on [0, cursor)
CursorQuad(s, f, st) ==
    LET size == getTextSize(Slice(s, 0, st.cursor), f)
    IN  [x |-> TEXT_BOX_X + size.w, y |-> TEXT_BOX_X, w |-> 2, h |-> size.h]

\* the selection and caret rectangles renderFrame draws over the buffer for a
\* non-empty selection and a cursor at one of its ends
DrawFrame(select_start, select_end, cursor) ==
    /\ Idle
    /\ select_start \in 0..Len(str)
    /\ select_end \in 0..Len(str)
    /\ select_start # select_end
    /\ cursor \in {select_start, select_end}
    /\ LET st == [cursor |-> cursor, select_start |-> select_start,
                  select_end |-> select_end, insert_mode |-> FALSE]
       IN  call' = [op |-> "renderFrame",
                    start |-> Min(select_start, select_end),
                    n |-> Max(select_start, select_end) - Min(select_start, select_end),
                    ox |-> TEXT_BOX_X, outcome |-> "returned", oob |-> FALSE,
                    cursor |-> cursor,
                    selection |-> SelectionQuad(str, font, st),
                    caret |-> CursorQuad(str, font, st)]
    /\ UNCHANGED <<str, state, font, queue, clipboard, prevCall, ev, loop>>

NextText ==
    \/ \E start \in -1..(MaxLen + 1), n \in 0..(MaxLen + 1) : Measure(start, n)
    \/ \E start_i \in -1..(MaxLen + 1) : LayoutRow(start_i)
    \/ \E i \in -1..(MaxLen + 1) : GetWidth(i)
    \/ \E origin \in {0, TEXT_BOX_X}, uninit \in Garbage : Build(origin, uninit)
    \/ \E select_start \in 0..MaxLen, select_end \in 0..MaxLen, cursor \in 0..MaxLen :
         DrawFrame(select_start, select_end, cursor)

SpecText == InitText /\ [][NextText]_vars

\* ------------------------------------------------ text-geometry properties

\* the lines of a text separated by '\n'
RECURSIVE SplitLines(_)
SplitLines(text) ==
    IF \A k \in 1..Len(text) : text[k] # "nl"
    THEN <<text>>
    ELSE LET k == CHOOSE j \in 1..Len(text) :
                    text[j] = "nl" /\ \A m \in 1..(j - 1) : text[m] # "nl"
         IN  <<SubSeq(text, 1, k - 1)>> \o SplitLines(SubSeq(text, k + 1, Len(text)))

\* the largest width any of the lines has when measured on its own
RECURSIVE MaxLineWidth(_, _)
MaxLineWidth(lines, f) ==
    IF lines = <<>> THEN 0
    ELSE Max(getTextSize(Head(lines), f).w, MaxLineWidth(Tail(lines), f))

\* the text of the recorded call
CallText == Slice(str, call.start, call.n)

\* a character for which the builder emits a quad
Visible(f, c) == c \notin {"cr", "nl", "sp", "tab"} /\ ResolveGlyph(f, c) # NoGlyph

\* C4: for every span built at origin (0, 0), the pen advance the quad builder
\* applies for each character equals the advance the measurer adds for that
\* character at that position, and on a span of one line the pen displacement
\* after the walk equals the measured width before rounding.
C4_BuilderAdvanceIsMeasurerAdvance ==
    (call.op = "createTextTexture" /\ call.ox = 0)
    => LET m == MeasureRaw(str, font)
       IN  /\ \A k \in 1..Len(str) : str[k] # "nl" => call.build.adv[k] = m.adv[k]
           /\ (\A k \in 1..Len(str) : str[k] # "nl")
                => call.build.x = Max(m.maxWidth, m.currentLineWidth)

\* C5: the measure of a span of lines separated by '\n' has height (number of
\* lines) x lineHeight, lineHeight being the height of one line (the height of
\* the empty span, or the scaled font-metrics line height), and width the
\* maximum of the widths of its lines measured on their own.
C5_MeasureOfLines ==
    (call.op = "getTextSize" /\ ValidSpan(str, call.start, call.n) /\ call.n > 0)
    => LET lines == SplitLines(CallText)
       IN  /\ \/ call.h = Len(lines) * getTextSize(<<>>, font).h
              \/ call.h = CeilDiv(Len(lines) * Scaled(font, font.lineHeight), Den(font))
           /\ call.w = MaxLineWidth(lines, font)

\* the width half of C5 alone: the measured width is the maximum of the widths
\* of the lines measured on their own, whatever follows each line
MeasureWidthIsMaxLineWidth ==
    (call.op = "getTextSize" /\ ValidSpan(str, call.start, call.n))
    => call.w = MaxLineWidth(SplitLines(CallText), font)

\* C6: the measure of an empty span is width 0 and exactly one line height,
\* the font-metrics line height that each '\n' adds (rounded up to a pixel).
C6_EmptySpanIsOneLineHeight ==
    (call.op = "getTextSize" /\ ValidSpan(str, call.start, call.n) /\ call.n = 0)
    => (/\ call.w = 0
        /\ call.h = CeilDiv(Scaled(font, font.lineHeight), Den(font)))

QuadsOf(k) == {j \in 1..Len(call.build.quads) : call.build.quads[j].index = k - 1}

\* character k is a tab with a visible glyph on either side
TabBetweenGlyphs(k) ==
    /\ 1 < k
    /\ k < Len(str)
    /\ str[k] = "tab"
    /\ Visible(font, str[k - 1])
    /\ Visible(font, str[k + 1])

\* C8: the build emits exactly one quad per visible glyph and none for a tab,
\* and the quads on either side of a tab are advance(previous glyph) +
\* 4 x advance(' ') apart in pen x, both scaled by the font-size factor.
C8_TabBetweenGlyphs ==
    (call.op = "createTextTexture")
    => (/\ \A k \in 1..Len(str) :
             Cardinality(QuadsOf(k)) = IF Visible(font, str[k]) THEN 1 ELSE 0
        /\ Len(call.build.quads) = Cardinality({k \in 1..Len(str) : Visible(font, str[k])})
        /\ \A k \in 1..Len(str) :
             TabBetweenGlyphs(k)
             => \A j1 \in QuadsOf(k - 1), j2 \in QuadsOf(k + 1) :
                  LET q1 == call.build.quads[j1]
                      q2 == call.build.quads[j2]
                  IN  /\ j2 = j1 + 1
                      /\ q2.x - q1.x = PixelSize * (Advance[q1.glyph] + 4 * Advance["sp"])
                      /\ q2.y = q1.y)

\* a built text with a tab between two glyphs, which are its only quads
C8_Witness ==
    /\ call.op = "createTextTexture"
    /\ \E k \in 1..Len(str) : TabBetweenGlyphs(k)
    /\ Len(call.build.quads) = 2

\* C9: a measurement, row-layout or per-character width call given a span or
\* index outside the buffer fails with OutOfRange and reads nothing outside
\* the buffer.
C9_InvalidSpanFailsFast ==
    (/\ call.op \in {"getTextSize", "layout_func", "get_width_func"}
     /\ ~ValidSpan(str, call.start, call.n))
    => (/\ call.outcome = "out_of_range"
        /\ ~call.oob)

\* the pen before character k of the recorded build: the origin, or the pen
\* after character k - 1
PenBefore(k) ==
    IF k = 1 THEN [x |-> call.ox * Den(font), y |-> call.ox * Den(font)]
    ELSE call.build.pen[k - 1]

\* C11: in a build at origin (originX, originY), for any originX, every '\n'
\* resets the pen x to originX, lowers the pen y by one scaled line height and
\* emits no quad.
C11_NewlineResetsToOrigin ==
    (call.op = "createTextTexture")
    => \A k \in 1..Len(str) :
         str[k] = "nl"
         => (/\ call.build.pen[k].x = call.ox * Den(font)
             /\ call.build.pen[k].y = PenBefore(k).y - Scaled(font, font.lineHeight)
             /\ QuadsOf(k) = {})

\* the part of C11 the build keeps at every origin: a '\n' lowers the pen y by
\* one scaled line height, emits no quad, and puts the pen x at 0
NewlineResetsToZero ==
    (call.op = "createTextTexture")
    => \A k \in 1..Len(str) :
         str[k] = "nl"
         => (/\ call.build.pen[k].x = 0
             /\ call.build.pen[k].y = PenBefore(k).y - Scaled(font, font.lineHeight)
             /\ QuadsOf(k) = {})

\* character k reaches the glyph lookup of both walks and has no glyph of its own
NoOwnGlyph(k) ==
    /\ str[k] \notin {"cr", "nl", "sp", "tab"}
    /\ getGlyph(font, str[k]) = NoGlyph

\* C13: a character with no glyph is an error in neither walk: where the font
\* has '?', the measurer adds the advance of '?' and the builder emits one
\* quad of the '?' glyph (and, before a following character, moves the pen by
\* that advance); where the font has no '?' either, the measurer adds zero
\* width and the builder emits no quad and leaves the pen where it was.
C13_MissingGlyphFallsBack ==
    (call.op = "createTextTexture")
    => LET m == MeasureRaw(str, font)
       IN  /\ call.outcome = "returned"
           /\ \A k \in 1..Len(str) :
                NoOwnGlyph(k)
                => IF getGlyph(font, "qm") # NoGlyph
                   THEN /\ m.adv[k] = Scaled(font, Advance["qm"])
                        /\ \E j \in 1..Len(call.build.quads) :
                              /\ QuadsOf(k) = {j}
                              /\ call.build.quads[j].glyph = "qm"
                              /\ call.build.quads[j].x = PenBefore(k).x
                        /\ k < Len(str) => call.build.adv[k] = m.adv[k]
                   ELSE /\ m.adv[k] = 0
                        /\ QuadsOf(k) = {}
                        /\ call.build.adv[k] = 0
                        /\ call.build.pen[k] = PenBefore(k)

\* a built text in a font with neither the glyph of a character nor '?', the
\* character standing between two glyphs that are drawn
C13_Witness ==
    /\ call.op = "createTextTexture"
    /\ getGlyph(font, "qm") = NoGlyph
    /\ \E k \in 2..(Len(str) - 1) :
         /\ NoOwnGlyph(k)
         /\ Visible(font, str[k - 1])
         /\ Visible(font, str[k + 1])
    /\ Len(call.build.quads) = 2

\* C15: for every selection [s, e) inside the buffer, the right edge of the
\* selection rectangle renderFrame draws (the measured width of [0, s) plus
\* the measured width of [s, e)) is the x position of the caret renderFrame
\* draws for a cursor at e (the measured width of [0, e)).
C15_SelectionEdgeIsCaret ==
    (call.op = "renderFrame" /\ call.cursor = call.start + call.n)
    => call.selection.x + call.selection.w = call.caret.x

\* the case of C15 the measurer does keep: a selection that starts at 0
SelectionFromStartEndsAtCaret ==
    (call.op = "renderFrame" /\ call.cursor = call.start + call.n /\ call.start = 0)
    => call.selection.x + call.selection.w = call.caret.x

\* ------------------------------------------- the editing state machine
\* stb_textedit.h is included by main.cpp and is not part of its source; the
\* operators below follow what it does with the callbacks main.cpp hands it.
\* An editor value ed holds the string, the STB_TexteditState st, the calls
\* made to STB_TEXTEDIT_INSERTCHARS and STB_TEXTEDIT_DELETECHARS so far, and
\* the entry point of stb_textedit that run() called.

\* stb_textedit_initialize_state(&state, 0): is_single_line = 0
single_line == FALSE

\* STB_TEXT_HAS_SELECTION
HasSelection(st) == st.select_start # st.select_end

\* stb_textedit_clamp
stb_textedit_clamp(ed) ==
    LET n == Len(ed.string)
        st == ed.st
        sel == IF HasSelection(st)
               THEN LET a == Min(st.select_start, n)
                        b == Min(st.select_end, n)
                    IN  [st EXCEPT !.select_start = a, !.select_end = b,
                                   !.cursor = IF a = b THEN a ELSE @]
               ELSE st
    IN  [ed EXCEPT !.st = [sel EXCEPT !.cursor = Min(@, n)]]

\* STB_TEXTEDIT_DELETECHARS(str, where, len), recorded
CallDelete(ed, where, len) ==
    [ed EXCEPT !.string = delete_chars(@, where, len).string,
               !.calls = Append(@, [op |-> "delete_chars", pos |-> where,
                                    num |-> len, text |-> <<>>])]

\* STB_TEXTEDIT_INSERTCHARS(str, pos, text, len), recorded
CallInsert(ed, pos, text) ==
    [ed EXCEPT !.string = insert_chars(@, pos, text).string,
               !.calls = Append(@, [op |-> "insert_chars", pos |-> pos,
                                    num |-> Len(text), text |-> text])]

\* stb_textedit_delete_selection
stb_textedit_delete_selection(ed) ==
    LET c == stb_textedit_clamp(ed)
        st == c.st
    IN  IF ~HasSelection(st) THEN c
        ELSE IF st.select_start < st.select_end
        THEN [CallDelete(c, st.select_start, st.select_end - st.select_start)
                EXCEPT !.st.select_end = st.select_start, !.st.cursor = st.select_start]
        ELSE [CallDelete(c, st.select_end, st.select_start - st.select_end)
                EXCEPT !.st.select_start = st.select_end, !.st.cursor = st.select_end]

\* stb_textedit_cut
stb_textedit_cut(ed) ==
    LET c == [ed EXCEPT !.entry = "stb_textedit_cut"]
    IN  IF HasSelection(ed.st) THEN stb_textedit_delete_selection(c) ELSE c

\* stb_textedit_paste: the selection is deleted, then the whole text goes in
\* with one STB_TEXTEDIT_INSERTCHARS at the cursor
stb_textedit_paste(ed, text) ==
    LET p == [ed EXCEPT !.entry = "stb_textedit_paste"]
        d == stb_textedit_delete_selection(stb_textedit_clamp(p))
        ok == insert_chars(d.string, d.st.cursor, text).ret = 1
        i == CallInsert(d, d.st.cursor, text)
    IN  IF ok THEN [i EXCEPT !.st.cursor = @ + Len(text)] ELSE i

\* stb_textedit_sortselection, stb_textedit_move_to_first, stb_textedit_move_to_last
SortSelection(st) ==
    IF st.select_end < st.select_start
    THEN [st EXCEPT !.select_start = st.select_end, !.select_end = st.select_start]
    ELSE st
MoveToFirst(ed) ==
    IF HasSelection(ed.st)
    THEN LET st == SortSelection(ed.st)
         IN  [ed EXCEPT !.st = [st EXCEPT !.cursor = st.select_start,
                                          !.select_end = st.select_start]]
    ELSE ed
MoveToLast(ed) ==
    IF HasSelection(ed.st)
    THEN LET c == stb_textedit_clamp([ed EXCEPT !.st = SortSelection(ed.st)])
         IN  [c EXCEPT !.st.cursor = c.st.select_end, !.st.select_start = c.st.select_end]
    ELSE ed

\* stb_textedit_prep_selection_at_cursor
PrepSelectionAtCursor(st) ==
    IF ~HasSelection(st)
    THEN [st EXCEPT !.select_start = st.cursor, !.select_end = st.cursor]
    ELSE [st EXCEPT !.cursor = st.select_end]

\* the keys of stb_textedit_key that are not text
NavKeys == {"K_LEFT", "K_RIGHT", "K_SHIFT_LEFT", "K_SHIFT_RIGHT",
            "K_BACKSPACE", "K_DELETE", "K_INSERT"}

\* stb_textedit_key for a character: STB_TEXTEDIT_KEYTOTEXT gives 0 for '\0';
\* in insert mode without a selection the character under the cursor is
\* replaced, otherwise the selection is deleted and the character inserted
KeyText(ed, c) ==
    IF c = "nul" \/ (c = "nl" /\ single_line) THEN ed
    ELSE IF ed.st.insert_mode /\ ~HasSelection(ed.st) /\ ed.st.cursor < Len(ed.string)
    THEN LET d == CallDelete(ed, ed.st.cursor, 1)
         IN  [CallInsert(d, d.st.cursor, <<c>>) EXCEPT !.st.cursor = @ + 1]
    ELSE LET d == stb_textedit_delete_selection(ed)
         IN  [CallInsert(d, d.st.cursor, <<c>>) EXCEPT !.st.cursor = @ + 1]

\* the switch of stb_textedit_key
KeySwitch(ed, key) ==
    CASE key = "K_INSERT" -> [ed EXCEPT !.st.insert_mode = ~@]
      [] key = "K_LEFT" ->
            IF HasSelection(ed.st) THEN MoveToFirst(ed)
            ELSE [ed EXCEPT !.st.cursor = IF @ > 0 THEN @ - 1 ELSE @]
      [] key = "K_RIGHT" ->
            stb_textedit_clamp(IF HasSelection(ed.st) THEN MoveToLast(ed)
                               ELSE [ed EXCEPT !.st.cursor = @ + 1])
      [] key = "K_SHIFT_LEFT" ->
            LET c == stb_textedit_clamp(ed)
                st == PrepSelectionAtCursor(c.st)
                e == IF st.select_end > 0 THEN st.select_end - 1 ELSE st.select_end
            IN  [c EXCEPT !.st = [st EXCEPT !.select_end = e, !.cursor = e]]
      [] key = "K_SHIFT_RIGHT" ->
            LET st == PrepSelectionAtCursor(ed.st)
                c == stb_textedit_clamp([ed EXCEPT !.st = [st EXCEPT !.select_end = @ + 1]])
            IN  [c EXCEPT !.st.cursor = c.st.select_end]
      [] key = "K_DELETE" ->
            IF HasSelection(ed.st) THEN stb_textedit_delete_selection(ed)
            ELSE IF ed.st.cursor < Len(ed.string) THEN CallDelete(ed, ed.st.cursor, 1)
            ELSE ed
      [] key = "K_BACKSPACE" ->
            IF HasSelection(ed.st) THEN stb_textedit_delete_selection(ed)
            ELSE LET c == stb_textedit_clamp(ed)
                 IN  IF c.st.cursor > 0
                     THEN [CallDelete(c, c.st.cursor - 1, 1) EXCEPT !.st.cursor = @ - 1]
                     ELSE c
      [] OTHER -> KeyText(ed, key)

\* stb_textedit_key
stb_textedit_key(ed, key) == KeySwitch([ed EXCEPT !.entry = "stb_textedit_key"], key)

\* ------------------------------------------------ the event loop of run()

\* longest buffer content the event loop is explored with
MaxAppLen == 2
\* most events the window system has queued ahead of run() at a time
MaxQueue == 1

\* most events queued at a time where the order of the queue is examined
MaxPending == 2

\* the value run() stores in event.text.reserved of the events it pushes
PasteTag == 8372194

KeyDown(key, ctrl) == [type |-> "key_down", key |-> key, ctrl |-> ctrl, text |-> <<>>, reserved |-> 0]
TextInput(text, reserved) ==
    [type |-> "text_input", key |-> "none", ctrl |-> FALSE, text |-> text, reserved |-> reserved]
QuitEvent == [type |-> "quit", key |-> "none", ctrl |-> FALSE, text |-> <<>>, reserved |-> 0]

\* the events the window system delivers: key presses (Shift+Left, Backspace
\* and Insert without Ctrl, the letter keys with it), committed text of one or
\* two characters, and the request to quit
UserEvents ==
    {KeyDown(k, FALSE) : k \in {"SDLK_SHIFT_LEFT", "SDLK_BACKSPACE", "SDLK_INSERT"}}
    \cup {KeyDown(k, TRUE) : k \in {"SDLK_C", "SDLK_X", "SDLK_V", "SDLK_A"}}
    \cup {TextInput(t, 0) : t \in {<<"a">>, <<"a", "nl">>}}
    \cup {QuitEvent}

\* the switch of run() from the SDL key (with the Shift state) to the stb key
StbKey(key) ==
    CASE key = "SDLK_LEFT" -> "K_LEFT"
      [] key = "SDLK_SHIFT_LEFT" -> "K_SHIFT_LEFT"
      [] key = "SDLK_RIGHT" -> "K_RIGHT"
      [] key = "SDLK_SHIFT_RIGHT" -> "K_SHIFT_RIGHT"
      [] key = "SDLK_BACKSPACE" -> "K_BACKSPACE"
      [] key = "SDLK_DELETE" -> "K_DELETE"
      [] key = "SDLK_INSERT" -> "K_INSERT"
      [] OTHER -> "none"

Editor == [string |-> str, st |-> state, calls |-> <<>>, entry |-> "none"]

\* what run() did with one event: the event, the entry point of stb_textedit
\* it called, the buffer callbacks that made, the spans a frame measured or
\* built, and, where run() pushed an event, the number of events that were
\* queued when it did, the one being handled included (0 where it pushed none)
Handled(e, ed) ==
    [type |-> e.type, key |-> e.key, text |-> e.text, reserved |-> e.reserved,
     path |-> ed.entry, calls |-> ed.calls, spans |-> {}, pushed |-> 0]

NoEvent == [type |-> "none", key |-> "none", ctrl |-> FALSE, text |-> <<>>, reserved |-> 0]

\* std::string(data + min, max - min) of the selection, for copy and cut
SelectedText ==
    LET min == Min(state.select_start, state.select_end)
        max == Max(state.select_start, state.select_end)
    IN  Slice(str, min, max - min)

InitApp ==
    /\ str = <<>>
    /\ state = [cursor |-> 0, select_start |-> 0, select_end |-> 0, insert_mode |-> FALSE]
    /\ font \in {f \in Fonts : f.lineHeight = 14}
    /\ queue = <<>>
    /\ clipboard \in {<<>>, <<"a">>, <<"a", "nl">>}
    /\ call = NoCall
    /\ prevCall = NoCall
    /\ ev = Handled(NoEvent, Editor)
    /\ loop = "running"

\* the window system queues an event (none after it asked to quit)
Post(e) ==
    /\ loop = "running"
    /\ Len(queue) < MaxQueue
    /\ queue' = Append(queue, e)
    /\ UNCHANGED <<str, state, font, clipboard, call, prevCall, ev, loop>>

\* a loop that handles at most one event before each frame
Drained_one(q) == TRUE

\* while (SDL_PollEvent(&event) != 0): the drain loop ends, and renderFrame()
\* runs, only when no event is queued
Drained(q) == q = <<>>

\* SDL_PollEvent returned e: SDL_EVENT_QUIT
HandleQuit ==
    /\ loop # "exited"
    /\ queue # <<>>
    /\ Head(queue).type = "quit"
    /\ queue' = Tail(queue)
    /\ loop' = "quitting"
    /\ ev' = Handled(Head(queue), Editor)
    /\ UNCHANGED <<str, state, font, clipboard, call, prevCall>>

\* a select-all that counts the terminator into the selection
SelectAll_terminator(ed) ==
    [ed EXCEPT !.st.select_start = 0, !.st.select_end = Len(ed.string) + 1]

\* Ctrl+A: select_start = 0, select_end = string.length(); the cursor stays
SelectAll(ed) ==
    [ed EXCEPT !.st.select_start = 0, !.st.select_end = Len(ed.string)]

\* SDL_PollEvent returned e: SDL_EVENT_KEY_DOWN
HandleKeyDown ==
    /\ loop # "exited"
    /\ queue # <<>>
    /\ Head(queue).type = "key_down"
    /\ LET e == Head(queue)
           copies == e.key \in {"SDLK_C", "SDLK_X"} /\ e.ctrl /\ HasSelection(state)
           ed == IF e.key = "SDLK_X" /\ e.ctrl /\ HasSelection(state)
                 THEN stb_textedit_cut(Editor)
                 ELSE IF e.key = "SDLK_A" /\ e.ctrl
                 THEN SelectAll(Editor)
                 ELSE IF StbKey(e.key) # "none"
                 THEN stb_textedit_key(Editor, StbKey(e.key))
                 ELSE Editor
       IN  /\ clipboard' = IF copies THEN SelectedText ELSE clipboard
           /\ queue' = IF e.key = "SDLK_V" /\ e.ctrl
                       THEN Append(Tail(queue), TextInput(clipboard, PasteTag))
                       ELSE Tail(queue)
           /\ str' = ed.string
           /\ state' = ed.st
           /\ ev' = [Handled(e, ed) EXCEPT !.pushed = IF e.key = "SDLK_V" /\ e.ctrl
                                                      THEN Len(queue) ELSE 0]
    /\ UNCHANGED <<font, call, prevCall, loop>>

\* the text-input branch of run(): more than one character goes to
\* stb_textedit_paste, anything else to stb_textedit_key with text[0]
text_input_always_key(ed, text) ==
    stb_textedit_key(ed, IF text = <<>> THEN "nul" ELSE text[1])

text_input(ed, text) ==
    IF Len(text) > 1
    THEN stb_textedit_paste(ed, text)
    ELSE stb_textedit_key(ed, IF text = <<>> THEN "nul" ELSE text[1])

\* SDL_PollEvent returned e: SDL_EVENT_TEXT_INPUT
HandleTextInput ==
    /\ loop # "exited"
    /\ queue # <<>>
    /\ Head(queue).type = "text_input"
    /\ Len(text_input(Editor, Head(queue).text).string) <= MaxAppLen
    /\ LET e == Head(queue)
           ed == text_input(Editor, e.text)
       IN  /\ str' = ed.string
           /\ state' = ed.st
           /\ ev' = Handled(e, ed)
    /\ queue' = Tail(queue)
    /\ UNCHANGED <<font, clipboard, call, prevCall, loop>>

\* the spans (start, n) of the string renderFrame hands to getTextSize and
\* createTextTexture: [0, start_idx) and [start_idx, end_idx) when
\* select_start # select_end, the whole string when it is not empty, and
\* [0, cursor) when the blinking cursor is shown
RenderSpans(s, st, showingCursor) ==
    LET start_idx == Min(st.select_start, st.select_end)
        end_idx == Max(st.select_start, st.select_end)
    IN  (IF st.select_start # st.select_end
         THEN {[start |-> 0, n |-> start_idx], [start |-> start_idx, n |-> end_idx - start_idx]}
         ELSE {})
        \cup (IF s # <<>> THEN {[start |-> 0, n |-> Len(s)]} ELSE {})
        \cup (IF showingCursor THEN {[start |-> 0, n |-> st.cursor]} ELSE {})

\* SDL_PollEvent returned 0: renderFrame(), then the test of quit
RenderFrame ==
    /\ loop # "exited"
    /\ Drained(queue)
    /\ \E showingCursor \in BOOLEAN :
         ev' = [Handled([NoEvent EXCEPT !.type = "render"], Editor)
                  EXCEPT !.spans = RenderSpans(str, state, showingCursor)]
    /\ loop' = IF loop = "quitting" THEN "exited" ELSE loop
    /\ UNCHANGED <<str, state, font, queue, clipboard, call, prevCall>>

NextApp ==
    \/ \E e \in UserEvents : Post(e)
    \/ HandleQuit
    \/ HandleKeyDown
    \/ HandleTextInput
    \/ RenderFrame

SpecApp == InitApp /\ [][NextApp]_vars

\* the events of the runs in which the cursor and the selection are followed
\* from frame to frame: the keys that move the cursor, select and delete,
\* select-all, cut and paste, one committed character and the request to quit
EditEvents ==
    {KeyDown(k, FALSE) : k \in {"SDLK_RIGHT", "SDLK_SHIFT_LEFT", "SDLK_BACKSPACE"}}
    \cup {KeyDown(k, TRUE) : k \in {"SDLK_X", "SDLK_V", "SDLK_A"}}
    \cup {TextInput(<<"a">>, 0), QuitEvent}

NextEdit ==
    \/ \E e \in EditEvents : Post(e)
    \/ HandleQuit
    \/ HandleKeyDown
    \/ HandleTextInput
    \/ RenderFrame

SpecEdit == InitApp /\ [][NextEdit]_vars

\* the events of the runs in which the order of the queue is examined: the
\* clipboard keys, select-all, one committed character and the request to quit
LoopEvents ==
    {KeyDown(k, TRUE) : k \in {"SDLK_X", "SDLK_V", "SDLK_A"}}
    \cup {TextInput(<<"a">>, 0), QuitEvent}

\* the window system queues an event behind those not yet polled
PostBehind(e) ==
    /\ loop = "running"
    /\ Len(queue) < MaxPending
    /\ queue' = Append(queue, e)
    /\ UNCHANGED <<str, state, font, clipboard, call, prevCall, ev, loop>>

NextLoop ==
    \/ \E e \in LoopEvents : PostBehind(e)
    \/ HandleQuit
    \/ HandleKeyDown
    \/ HandleTextInput
    \/ RenderFrame

SpecLoop == InitApp /\ [][NextLoop]_vars

\* -------------------------------------------------- event-loop properties

\* the calls to insert_chars made while the last event was handled
InsertCalls == SelectSeq(ev.calls, LAMBDA c : c.op = "insert_chars")

\* the places of the queue that hold an event pushed by run() itself
Pushed == {i \in 1..Len(queue) : queue[i].reserved = PasteTag}

\* C10: a text-input event of more than one character is applied by
\* stb_textedit_paste with exactly one insert call that carries the whole
\* text, which is then in the buffer before the cursor; a text-input event of
\* exactly one character is applied by stb_textedit_key, the per-key path,
\* with one insert call of that character; and Ctrl+V inserts nothing itself
\* but queues, behind the events already pushed, one text-input event that
\* carries the whole clipboard text.
C10_PasteIsOneInsert ==
    /\ (ev.type = "text_input" /\ Len(ev.text) > 1)
         => (/\ ev.path = "stb_textedit_paste"
             /\ Len(InsertCalls) = 1
             /\ InsertCalls[1].text = ev.text
             /\ state.cursor = InsertCalls[1].pos + Len(ev.text)
             /\ Slice(str, InsertCalls[1].pos, Len(ev.text)) = ev.text)
    /\ (ev.type = "text_input" /\ Len(ev.text) = 1)
         => (/\ ev.path = "stb_textedit_key"
             /\ Len(InsertCalls) = 1
             /\ InsertCalls[1].text = ev.text)
    /\ (ev.type = "key_down" /\ ev.key = "SDLK_V")
         => (/\ Pushed # {}
             /\ \A i \in Pushed :
                  (\A j \in Pushed : j <= i) => queue[i] = TextInput(clipboard, PasteTag)
             /\ Len(InsertCalls) = 0)

\* a clipboard text of two characters pasted with Ctrl+V over a selection
C10_Witness ==
    /\ ev.type = "text_input"
    /\ ev.reserved = PasteTag
    /\ Len(ev.text) > 1
    /\ Len(ev.calls) = 2
    /\ ev.calls[1].op = "delete_chars"

C14_PasteAppliedBeforeFrame ==
    /\ (ev.type = "render") => Pushed = {}
    /\ (ev.type = "key_down" /\ ev.key = "SDLK_V")
         => (/\ ev.pushed \in Pushed
             /\ queue[ev.pushed] = TextInput(clipboard, PasteTag)
             /\ \A i \in Pushed : i <= ev.pushed)
    /\ (ev.type = "text_input" /\ ev.reserved = PasteTag)
         => (ev.text # <<>> => InsertCalls # <<>>)

\* a Ctrl+V handled with another event queued behind it: the pushed event
\* waits behind that one
C14_Witness ==
    /\ ev.type = "key_down"
    /\ ev.key = "SDLK_V"
    /\ ev.pushed = 2
    /\ Len(queue) = 2
    /\ queue[1].reserved = 0
    /\ queue[2] = TextInput(clipboard, PasteTag)
    /\ clipboard # <<>>

====
